---- MODULE Spec2Model ----
(***************************************************************************)
(* Model of the field-mapping compiler of the `relate` macros              *)
(* (crates/relate-macros): the AST of a field mapping, the usage analysis, *)
(* the clone policy, the two hoisting passes of the derive generator, the  *)
(* emitters of `relate_structs!` and `#[derive(Relate)]`, the directions   *)
(* and the reversal policies, and the execution of the emitted procedures. *)
(***************************************************************************)
EXTENDS Integers, Sequences, FiniteSets, TLC

VARIABLES
    generator,   \* which macro compiles the mapping set
    clone_mode,  \* the mapping-set level CloneMode
    fields,      \* the ordered FieldMapping sequence parsed so far
    phase,       \* "parse" | "emitted"
    procs,       \* the emitted forward procedures (owned, ref)
    run,         \* one execution of an emitted procedure
    request,     \* the requested direction, fallibility and error type
    output,      \* the emitted impl blocks, in the order written
    trip         \* a record converted forward and back again

vars == <<generator, clone_mode, fields, phase, procs, run, request, output, trip>>

(***************************************************************************)
(* Bounds                                                                  *)
(***************************************************************************)
MaxFields == 2
MaxRunFields == 4
MaxDirFields == 2
MaxTokens == 2
MaxRenderTokens == 3
MaxBodyFields == 3
MaxDefaultFields == 4
MaxMoveFields == 3

(***************************************************************************)
(* Token trees (proc_macro2::TokenTree)                                    *)
(***************************************************************************)
Id(s) == [kind |-> "Ident", text |-> s, stream |-> <<>>]
Pu(s) == [kind |-> "Punct", text |-> s, stream |-> <<>>]
Lit(s) == [kind |-> "Literal", text |-> s, stream |-> <<>>]
Grp(d, s) == [kind |-> "Group", text |-> d, stream |-> s]

CloseOf(d) == IF d = "(" THEN ")" ELSE IF d = "[" THEN "]" ELSE "}"

\* TokenStream::to_string() with every ' ' removed
RECURSIVE FlatText(_)
FlatText(tokens) ==
    IF tokens = <<>> THEN ""
    ELSE LET tt == Head(tokens)
             s == IF tt.kind = "Group"
                  THEN tt.text \o FlatText(tt.stream) \o CloseOf(tt.text)
                  ELSE tt.text
         IN s \o FlatText(Tail(tokens))

\* TokenStream::to_string(): the tokens separated by one space
RECURSIVE TokensToString(_)
TokensToString(tokens) ==
    IF tokens = <<>> THEN ""
    ELSE LET tt == Head(tokens)
             s == IF tt.kind = "Group"
                  THEN tt.text \o TokensToString(tt.stream) \o CloseOf(tt.text)
                  ELSE tt.text
         IN IF Tail(tokens) = <<>> THEN s
            ELSE s \o " " \o TokensToString(Tail(tokens))

\* str::trim_start_matches('.') seen on the token stream: the leading dots
RECURSIVE TrimStartDots(_)
TrimStartDots(tokens) ==
    IF tokens # <<>> /\ Head(tokens) = Pu(".")
    THEN TrimStartDots(Tail(tokens))
    ELSE tokens

RECURSIVE tokens_contain_call(_)
tokens_contain_call(tokens) ==
    \E i \in 1..Len(tokens) :
        /\ tokens[i].kind = "Group"
        /\ \/ tokens[i].text = "("
           \/ tokens_contain_call(tokens[i].stream)

RECURSIVE tokens_contain_question_mark(_)
tokens_contain_question_mark(tokens) ==
    \E i \in 1..Len(tokens) :
        \/ tokens[i] = Pu("?")
        \/ tokens[i].kind = "Group" /\ tokens_contain_question_mark(tokens[i].stream)

RECURSIVE replace_underscore_from(_, _, _)
replace_underscore_from(tokens, field, i) ==
    IF i > Len(tokens) THEN <<>>
    ELSE LET tt == tokens[i]
             preceded_by_dot == i > 1 /\ tokens[i - 1] = Pu(".")
             out == IF tt = Id("_")
                    THEN IF preceded_by_dot THEN <<Id(field)>>
                         ELSE <<Pu("."), Id(field)>>
                    ELSE IF tt.kind = "Group"
                    THEN <<Grp(tt.text, replace_underscore_from(tt.stream, field, 1))>>
                    ELSE <<tt>>
         IN out \o replace_underscore_from(tokens, field, i + 1)

\* a rewriting that replaces the first top-level placeholder only
replace_underscore_first_only(tokens, field) ==
    IF \E i \in 1..Len(tokens) : tokens[i] = Id("_")
    THEN LET i == CHOOSE i \in 1..Len(tokens) :
                      tokens[i] = Id("_") /\ \A j \in 1..(i - 1) : tokens[j] # Id("_")
         IN SubSeq(tokens, 1, i - 1)
            \o (IF i > 1 /\ tokens[i - 1] = Pu(".") THEN <<Id(field)>>
                ELSE <<Pu("."), Id(field)>>)
            \o SubSeq(tokens, i + 1, Len(tokens))
    ELSE tokens

replace_underscore_in_tokens(tokens, field) ==
    replace_underscore_from(tokens, field, 1)

Keywords ==
    {"if", "else", "match", "while", "for", "loop", "return", "break",
     "continue", "let", "const", "static", "fn", "pub", "mod", "use",
     "struct", "enum", "impl", "trait", "type", "where", "async", "await",
     "move", "ref", "mut", "as", "in", "unsafe", "extern", "crate", "self",
     "super", "dyn", "true", "false"}

is_keyword(ident) == ident.text \in Keywords

\* every identifier, keyword or not, taken as a base expression
is_preceded_by_base_any_ident(tokens, idx) ==
    IF idx = 1 THEN FALSE
    ELSE LET p == tokens[idx - 1]
         IN CASE p.kind = "Ident" -> TRUE
              [] p.kind = "Group" -> TRUE
              [] p.kind = "Punct" -> p.text \in {")", "]", "}", "?"}
              [] OTHER -> FALSE

is_preceded_by_base(tokens, idx) ==
    IF idx = 1 THEN FALSE
    ELSE LET p == tokens[idx - 1]
         IN CASE p.kind = "Ident" -> ~is_keyword(p)
              [] p.kind = "Group" -> TRUE
              [] p.kind = "Punct" -> p.text \in {")", "]", "}", "?"}
              [] OTHER -> FALSE

RECURSIVE transform_with_expr_from(_, _, _)
transform_with_expr_from(tokens, field, i) ==
    IF i > Len(tokens) THEN <<>>
    ELSE LET tt == tokens[i]
             preceded_by_dot == i > 1 /\ tokens[i - 1] = Pu(".")
             next_is_ident == i + 1 <= Len(tokens) /\ tokens[i + 1].kind = "Ident"
             is_source_access == next_is_ident /\ ~is_preceded_by_base(tokens, i)
             out == IF tt = Id("_")
                    THEN IF preceded_by_dot THEN <<Id(field)>>
                         ELSE <<Id("src"), Pu("."), Id(field)>>
                    ELSE IF tt = Pu(".")
                    THEN IF is_source_access THEN <<Id("src"), tt>> ELSE <<tt>>
                    ELSE IF tt.kind = "Group"
                    THEN <<Grp(tt.text, transform_with_expr_from(tt.stream, field, 1))>>
                    ELSE <<tt>>
         IN out \o transform_with_expr_from(tokens, field, i + 1)

\* the rewrite applied to the top level only, groups copied as they are
RECURSIVE transform_with_expr_top_from(_, _, _)
transform_with_expr_top_from(tokens, field, i) ==
    IF i > Len(tokens) THEN <<>>
    ELSE LET tt == tokens[i]
             preceded_by_dot == i > 1 /\ tokens[i - 1] = Pu(".")
             next_is_ident == i + 1 <= Len(tokens) /\ tokens[i + 1].kind = "Ident"
             is_source_access == next_is_ident /\ ~is_preceded_by_base(tokens, i)
             out == IF tt = Id("_")
                    THEN IF preceded_by_dot THEN <<Id(field)>>
                         ELSE <<Id("src"), Pu("."), Id(field)>>
                    ELSE IF tt = Pu(".")
                    THEN IF is_source_access THEN <<Id("src"), tt>> ELSE <<tt>>
                    ELSE <<tt>>
         IN out \o transform_with_expr_top_from(tokens, field, i + 1)

transform_with_expr_top_level_only(tokens, field) ==
    transform_with_expr_top_from(tokens, field, 1)

transform_with_expr_tokens(tokens, field) ==
    transform_with_expr_from(tokens, field, 1)

RECURSIVE replace_placeholder(_, _)
replace_placeholder(tokens, replacement) ==
    IF tokens = <<>> THEN <<>>
    ELSE LET tt == Head(tokens)
             out == IF tt = Id("_") THEN Id(replacement)
                    ELSE IF tt.kind = "Group"
                    THEN Grp(tt.text, replace_placeholder(tt.stream, replacement))
                    ELSE tt
         IN <<out>> \o replace_placeholder(Tail(tokens), replacement)

(***************************************************************************)
(* AST model (core/types.rs)                                               *)
(***************************************************************************)
CloneMode == {"Auto", "Cloned", "Move", "Copy"}

NoExpr == [kind |-> "None", text |-> ""]

Identity == [kind |-> "Identity", tokens |-> <<>>, fallible |-> FALSE, expr |-> NoExpr]
WithExpr(tokens, fallible) ==
    [kind |-> "WithExpr", tokens |-> tokens, fallible |-> fallible, expr |-> NoExpr]
CollectionMap(tokens) ==
    [kind |-> "CollectionMap", tokens |-> tokens, fallible |-> FALSE, expr |-> NoExpr]
Default == [kind |-> "Default", tokens |-> <<>>, fallible |-> FALSE, expr |-> NoExpr]
DefaultExpr(expr) ==
    [kind |-> "DefaultExpr", tokens |-> <<>>, fallible |-> FALSE, expr |-> expr]

is_default_kind(transform) == transform.kind \in {"Default", "DefaultExpr"}

is_fallible(transform) ==
    CASE transform.kind = "WithExpr" -> transform.fallible
      [] transform.kind = "CollectionMap" -> tokens_contain_question_mark(transform.tokens)
      [] OTHER -> FALSE

\* FieldSource: field_name and clone_mode are Option values ("None" = absent)
FieldSource(transform, mode) ==
    [field_name |-> "None", transform |-> transform, clone_mode |-> mode]

FieldMapping(target, source) == [target_field |-> target, source |-> source]

get_field_name(source, target) ==
    IF source.field_name = "None" THEN target ELSE source.field_name

reads_field(source) == ~is_default_kind(source.transform)

get_usage_key(source, target) ==
    CASE source.transform.kind = "WithExpr" ->
            FlatText(TrimStartDots(
                replace_underscore_in_tokens(source.transform.tokens, target)))
      [] source.transform.kind = "CollectionMap" ->
            TokensToString(source.transform.tokens)
      [] OTHER -> get_field_name(source, target)

\* Option::unwrap_or on the field-level clone mode
effective_mode(source, struct_clone_mode) ==
    IF source.clone_mode = "None" THEN struct_clone_mode ELSE source.clone_mode

(***************************************************************************)
(* Usage analysis (core/codegen.rs)                                        *)
(***************************************************************************)
FieldUsage(count, last_index) == [count |-> count, last_index |-> last_index]

\* the HashMap after the first n mappings; indices are 0-based as in enumerate()
RECURSIVE count_field_usage_upto(_, _)
count_field_usage_upto(mappings, n) ==
    IF n = 0 THEN <<>>
    ELSE LET usage == count_field_usage_upto(mappings, n - 1)
             mapping == mappings[n]
             index == n - 1
             usage_key == get_usage_key(mapping.source, mapping.target_field)
         IN IF ~reads_field(mapping.source) THEN usage
            ELSE IF usage_key \in DOMAIN usage
            THEN [usage EXCEPT ![usage_key] = FieldUsage(@.count + 1, index)]
            ELSE usage @@ (usage_key :> FieldUsage(1, index))

\* a usage analysis that misses the last mapping
count_field_usage_skips_last(mappings) ==
    count_field_usage_upto(mappings, IF Len(mappings) = 0 THEN 0 ELSE Len(mappings) - 1)

count_field_usage(mappings) == count_field_usage_upto(mappings, Len(mappings))

(***************************************************************************)
(* Clone policy (core/codegen.rs)                                          *)
(***************************************************************************)
should_clone_field_ref_after_move(mapping, field_index, is_ref, field_usage, effective_clone_mode) ==
    IF ~reads_field(mapping.source) THEN FALSE
    ELSE IF effective_clone_mode = "Copy" THEN FALSE
    ELSE IF effective_clone_mode = "Cloned" THEN TRUE
    ELSE IF effective_clone_mode = "Move" THEN FALSE
    ELSE IF is_ref THEN TRUE
    ELSE LET usage_key == get_usage_key(mapping.source, mapping.target_field)
         IN IF usage_key \notin DOMAIN field_usage THEN FALSE
            ELSE IF field_usage[usage_key].count <= 1 THEN FALSE
            ELSE ~(/\ mapping.source.transform.kind = "Identity"
                   /\ field_index = field_usage[usage_key].last_index)

should_clone_field_single_use_clones(mapping, field_index, is_ref, field_usage, effective_clone_mode) ==
    IF ~reads_field(mapping.source) THEN FALSE
    ELSE IF effective_clone_mode = "Copy" THEN FALSE
    ELSE IF effective_clone_mode = "Cloned" THEN TRUE
    ELSE IF is_ref THEN TRUE
    ELSE IF effective_clone_mode = "Move" THEN FALSE
    ELSE LET usage_key == get_usage_key(mapping.source, mapping.target_field)
         IN IF usage_key \notin DOMAIN field_usage THEN FALSE
            ELSE IF field_usage[usage_key].count < 1 THEN FALSE
            ELSE ~(/\ mapping.source.transform.kind = "Identity"
                   /\ field_index = field_usage[usage_key].last_index)

\* an Identity field of a multi-use key moves wherever it stands
should_clone_field_identity_moves(mapping, field_index, is_ref, field_usage, effective_clone_mode) ==
    IF ~reads_field(mapping.source) THEN FALSE
    ELSE IF effective_clone_mode = "Copy" THEN FALSE
    ELSE IF effective_clone_mode = "Cloned" THEN TRUE
    ELSE IF is_ref THEN TRUE
    ELSE IF effective_clone_mode = "Move" THEN FALSE
    ELSE LET usage_key == get_usage_key(mapping.source, mapping.target_field)
         IN IF usage_key \notin DOMAIN field_usage THEN FALSE
            ELSE IF field_usage[usage_key].count <= 1 THEN FALSE
            ELSE mapping.source.transform.kind # "Identity"

should_clone_field(mapping, field_index, is_ref, field_usage, effective_clone_mode) ==
    IF ~reads_field(mapping.source) THEN FALSE
    ELSE IF effective_clone_mode = "Copy" THEN FALSE
    ELSE IF effective_clone_mode = "Cloned" THEN TRUE
    ELSE IF is_ref THEN TRUE
    ELSE IF effective_clone_mode = "Move" THEN FALSE
    ELSE LET usage_key == get_usage_key(mapping.source, mapping.target_field)
         IN IF usage_key \notin DOMAIN field_usage THEN FALSE
            ELSE IF field_usage[usage_key].count <= 1 THEN FALSE
            ELSE ~(/\ mapping.source.transform.kind = "Identity"
                   /\ field_index = field_usage[usage_key].last_index)

(***************************************************************************)
(* Emitted code.  A value is the expression the generator writes:          *)
(*   default_default  ::core::default::Default::default()                  *)
(*   default_expr     the DefaultExpr expression itself                    *)
(*   field_access     src.<field>            (+ .clone() when clone)       *)
(*   with_expr        the rendered tokens    (+ .clone() when clone,       *)
(*                                            + ? when try)                *)
(*   collect          src.<field>.iter()[.cloned()].map(..).collect()      *)
(*   binding          a temporary            (+ .clone() when clone)       *)
(* clone records whether the generator wrote a duplication call.           *)
(***************************************************************************)
Value(form, field, tokens, expr, clone, try, binding) ==
    [form |-> form, field |-> field, tokens |-> tokens, expr |-> expr,
     clone |-> clone, try |-> try, binding |-> binding]

field_access(field, should_clone) ==
    Value("field_access", field, <<>>, NoExpr, should_clone, FALSE, "")

\* `#target: #value`
FieldInit(target, value) == [target |-> target, value |-> value]

\* `let #name = #value;` evaluated for target field `target`
LetBinding(name, target, value) == [name |-> name, target |-> target, value |-> value]

generate_field_init(mapping, field_index, is_ref, field_usage, struct_clone_mode) ==
    LET target == mapping.target_field
        source_field == get_field_name(mapping.source, target)
        effective_clone_mode == effective_mode(mapping.source, struct_clone_mode)
        should_clone == should_clone_field(mapping, field_index, is_ref, field_usage,
                                           effective_clone_mode)
        transform == mapping.source.transform
        value ==
            CASE transform.kind = "Default" ->
                    Value("default_default", "", <<>>, NoExpr, FALSE, FALSE, "")
              [] transform.kind = "DefaultExpr" ->
                    Value("default_expr", "", <<>>, transform.expr, FALSE, FALSE, "")
              [] transform.kind = "Identity" ->
                    field_access(source_field, should_clone)
              [] transform.kind = "WithExpr" ->
                    LET transformed == transform_with_expr_tokens(transform.tokens,
                                                                  source_field)
                        needs_clone == should_clone /\ ~tokens_contain_call(transform.tokens)
                    IN Value("with_expr", source_field, transformed, NoExpr,
                             needs_clone, transform.fallible, "")
              [] transform.kind = "CollectionMap" ->
                    Value("collect", source_field,
                          replace_placeholder(transform.tokens, "__item"), NoExpr,
                          effective_clone_mode = "Cloned", FALSE, "")
    IN FieldInit(target, value)

(***************************************************************************)
(* How the emitted code names the library (the quote! templates)           *)
(***************************************************************************)
\* `::a::b::c`
RECURSIVE QualifiedPath(_)
QualifiedPath(segments) ==
    IF segments = <<>> THEN <<>>
    ELSE <<Pu("::"), Id(Head(segments))>> \o QualifiedPath(Tail(segments))

\* `.name(...)`
MethodCall(name) == <<Pu("."), Id(name)>>

LibraryOperation(operation, written) == [operation |-> operation, written |-> written]

\* the library operations one emitted value names, as the templates write them
library_operations(value) ==
    LET clone == IF value.clone
                 THEN {LibraryOperation("duplication", MethodCall("clone"))}
                 ELSE {}
    IN CASE value.form = "default_default" ->
               {LibraryOperation("default construction",
                                 QualifiedPath(<<"core", "default", "Default", "default">>))}
         [] value.form = "default_expr" -> {}
         [] value.form \in {"field_access", "with_expr", "binding"} -> clone
         [] value.form = "collect" ->
               {LibraryOperation("iteration", MethodCall("iter")),
                LibraryOperation("iteration", MethodCall("map")),
                LibraryOperation("collection", MethodCall("collect"))}
               \cup (IF value.clone
                     THEN {LibraryOperation("duplication", MethodCall("cloned")),
                           LibraryOperation("conversion",
                               QualifiedPath(<<"core", "convert", "Into", "into">>))}
                     ELSE {})

\* the library operations of a procedure's frame
procedure_operations(proc) ==
    IF proc.fallible
    THEN {LibraryOperation("result construction",
                           QualifiedPath(<<"core", "result", "Result", "Ok">>))}
    ELSE {}

(***************************************************************************)
(* Default-expression hoisting (from_derive/generator.rs, DefaultBindings)  *)
(***************************************************************************)
\* syn::Expr of a DefaultExpr: its variant and its token text
Expr(kind, text) == [kind |-> kind, text |-> text]

is_hoistable_any(expr) == TRUE

is_hoistable(expr) == expr.kind \in {"Call", "MethodCall"}

\* expr.to_token_stream().to_string()
expr_key(expr) == expr.text

\* expr_counts after the first n fields
RECURSIVE expr_counts_upto(_, _)
expr_counts_upto(mappings, n) ==
    IF n = 0 THEN <<>>
    ELSE LET counts == expr_counts_upto(mappings, n - 1)
             transform == mappings[n].source.transform
             key == expr_key(transform.expr)
         IN IF transform.kind # "DefaultExpr" THEN counts
            ELSE IF ~is_hoistable(transform.expr) THEN counts
            ELSE IF key \in DOMAIN counts
            THEN [counts EXCEPT ![key] = @ + 1]
            ELSE counts @@ (key :> 1)

expr_counts(mappings) == expr_counts_upto(mappings, Len(mappings))

\* the keys that get a binding: used more than once
HoistedKeys(mappings) ==
    {k \in DOMAIN expr_counts(mappings) : ~(expr_counts(mappings)[k] <= 1)}

\* The orders in which `for (expr_str, count) in expr_counts` can visit the
\* hoisted keys: HashMap iteration order is unspecified.
IterationOrders(keys) ==
    {order \in [1..Cardinality(keys) -> keys] :
        \A i, j \in DOMAIN order : order[i] = order[j] => i = j}

\* DefaultBindings::new under one iteration order: key -> (binding name, count)
DefaultBindings_new(mappings, order) ==
    [k \in HoistedKeys(mappings) |->
        LET binding_idx == (CHOOSE i \in DOMAIN order : order[i] = k) - 1
        IN [name |-> "__default_" \o ToString(binding_idx),
            count |-> expr_counts(mappings)[k]]]

\* DefaultBindings::generate_let_bindings: one let per binding, at its first use
RECURSIVE default_let_bindings_from(_, _, _, _)
default_let_bindings_from(bindings, mappings, i, seen) ==
    IF i > Len(mappings) THEN <<>>
    ELSE LET field == mappings[i]
             transform == field.source.transform
             key == expr_key(transform.expr)
         IN IF transform.kind # "DefaultExpr" \/ key \notin DOMAIN bindings \/ key \in seen
            THEN default_let_bindings_from(bindings, mappings, i + 1, seen)
            ELSE <<LetBinding(bindings[key].name, field.target_field,
                      Value("default_expr", "", <<>>, transform.expr, FALSE, FALSE, ""))>>
                 \o default_let_bindings_from(bindings, mappings, i + 1, seen \cup {key})

default_generate_let_bindings(bindings, mappings) ==
    default_let_bindings_from(bindings, mappings, 1, {})

(***************************************************************************)
(* Arbitrary-expression hoisting (from_derive/generator.rs,                *)
(* WithExprBindings)                                                       *)
(***************************************************************************)
\* a map keyed by expression text: one binding for all fields with that text
WithExprBindings_new_by_text(mappings) ==
    [t \in {mappings[i].target_field : i \in
                {j \in 1..Len(mappings) : mappings[j].source.transform.kind = "WithExpr"}} |->
        LET me == CHOOSE i \in 1..Len(mappings) : mappings[i].target_field = t
            first == CHOOSE i \in 1..Len(mappings) :
                        /\ mappings[i].source.transform.kind = "WithExpr"
                        /\ mappings[i].source.transform.tokens
                              = mappings[me].source.transform.tokens
                        /\ \A j \in 1..(i - 1) :
                              ~(/\ mappings[j].source.transform.kind = "WithExpr"
                                /\ mappings[j].source.transform.tokens
                                      = mappings[me].source.transform.tokens)
        IN "__with_" \o mappings[first].target_field]

\* WithExprBindings::new: target field name -> binding name
WithExprBindings_new(mappings) ==
    [t \in {mappings[i].target_field : i \in
                {j \in 1..Len(mappings) : mappings[j].source.transform.kind = "WithExpr"}} |->
        "__with_" \o t]

RECURSIVE with_let_bindings_from(_, _, _, _, _)
with_let_bindings_from(bindings, mappings, is_ref, field_usage, i) ==
    IF i > Len(mappings) THEN <<>>
    ELSE LET field == mappings[i]
             transform == field.source.transform
             field_name == field.target_field
             transformed == transform_with_expr_tokens(transform.tokens, field.target_field)
             is_simple_field == ~tokens_contain_call(transform.tokens)
             usage_key == get_usage_key(field.source, field.target_field)
             is_multi_use == /\ usage_key \in DOMAIN field_usage
                             /\ field_usage[usage_key].count > 1
             needs_clone == is_simple_field /\ (is_ref \/ is_multi_use)
         IN IF transform.kind # "WithExpr" \/ field_name \notin DOMAIN bindings
            THEN with_let_bindings_from(bindings, mappings, is_ref, field_usage, i + 1)
            ELSE <<LetBinding(bindings[field_name], field.target_field,
                      Value("with_expr", field.target_field, transformed, NoExpr,
                            needs_clone, transform.fallible, ""))>>
                 \o with_let_bindings_from(bindings, mappings, is_ref, field_usage, i + 1)

with_generate_let_bindings_reversed(bindings, mappings, is_ref, field_usage) ==
    LET forward == with_let_bindings_from(bindings, mappings, is_ref, field_usage, 1)
    IN [i \in 1..Len(forward) |-> forward[Len(forward) + 1 - i]]

with_generate_let_bindings(bindings, mappings, is_ref, field_usage) ==
    with_let_bindings_from(bindings, mappings, is_ref, field_usage, 1)

(***************************************************************************)
(* FieldGenerator (from_derive/generator.rs)                               *)
(***************************************************************************)
FieldGenerator_new(mappings, struct_clone_mode, order) ==
    [fields |-> mappings,
     clone_mode |-> struct_clone_mode,
     field_usage |-> count_field_usage(mappings),
     default_bindings |-> DefaultBindings_new(mappings, order),
     with_expr_bindings |-> WithExprBindings_new(mappings)]

let_bindings_defaults_first(gen, is_ref) ==
    default_generate_let_bindings(gen.default_bindings, gen.fields)
    \o with_generate_let_bindings(gen.with_expr_bindings, gen.fields, is_ref,
                                  gen.field_usage)

\* WithExpr first, then defaults
let_bindings(gen, is_ref) ==
    with_generate_let_bindings(gen.with_expr_bindings, gen.fields, is_ref,
                               gen.field_usage)
    \o default_generate_let_bindings(gen.default_bindings, gen.fields)

\* the last consumer of a hoisted default takes the temporary by value
field_init_last_consumer_moves(gen, mapping, field_index, is_ref) ==
    LET target == mapping.target_field
        transform == mapping.source.transform
        key == expr_key(transform.expr)
        mode == effective_mode(mapping.source, gen.clone_mode)
    IN IF target \in DOMAIN gen.with_expr_bindings
       THEN FieldInit(target, Value("binding", "", <<>>, NoExpr, FALSE, FALSE,
                                    gen.with_expr_bindings[target]))
       ELSE IF transform.kind # "DefaultExpr" \/ key \notin DOMAIN gen.default_bindings
       THEN generate_field_init(mapping, field_index, is_ref, gen.field_usage,
                                gen.clone_mode)
       ELSE LET is_last == \A j \in 1..Len(gen.fields) :
                               (/\ gen.fields[j].source.transform.kind = "DefaultExpr"
                                /\ expr_key(gen.fields[j].source.transform.expr) = key)
                               => j - 1 <= field_index
                needs_clone == CASE mode \in {"Move", "Copy"} -> FALSE
                                 [] mode = "Cloned" -> TRUE
                                 [] mode = "Auto" -> is_ref \/ ~is_last
            IN FieldInit(target, Value("binding", "", <<>>, NoExpr, needs_clone, FALSE,
                                       gen.default_bindings[key].name))

field_init(gen, mapping, field_index, is_ref) ==
    LET target == mapping.target_field
        transform == mapping.source.transform
        key == expr_key(transform.expr)
        mode == effective_mode(mapping.source, gen.clone_mode)
    IN IF target \in DOMAIN gen.with_expr_bindings
       THEN FieldInit(target, Value("binding", "", <<>>, NoExpr, FALSE, FALSE,
                                    gen.with_expr_bindings[target]))
       ELSE IF transform.kind # "DefaultExpr" \/ key \notin DOMAIN gen.default_bindings
       THEN generate_field_init(mapping, field_index, is_ref, gen.field_usage,
                                gen.clone_mode)
       ELSE LET count == gen.default_bindings[key].count
                needs_clone == CASE mode \in {"Move", "Copy"} -> FALSE
                                 [] mode = "Cloned" -> TRUE
                                 [] mode = "Auto" -> is_ref \/ count > 1
            IN FieldInit(target, Value("binding", "", <<>>, NoExpr, needs_clone, FALSE,
                                       gen.default_bindings[key].name))

field_inits(gen, is_ref) ==
    [i \in 1..Len(gen.fields) |-> field_init(gen, gen.fields[i], i - 1, is_ref)]

(***************************************************************************)
(* Emitters                                                                *)
(***************************************************************************)
has_fallible_fields(mappings) ==
    \E i \in 1..Len(mappings) : is_fallible(mappings[i].source.transform)

\* one emitted procedure: the let bindings, then `Self { inits }`
\* (wrapped in Result::Ok when fallible)
Procedure(lets, inits, fallible) == [lets |-> lets, inits |-> inits, fallible |-> fallible]

\* generate_from_impl / generate_try_from_impl for a forward request without
\* an explicit error type: the owned and the reference-taking procedure
generate_from_derive(mappings, struct_clone_mode, order) ==
    LET field_gen == FieldGenerator_new(mappings, struct_clone_mode, order)
        fallible == has_fallible_fields(mappings)
    IN [owned |-> Procedure(let_bindings(field_gen, FALSE),
                            field_inits(field_gen, FALSE), fallible),
        ref |-> Procedure(let_bindings(field_gen, TRUE),
                          field_inits(field_gen, TRUE), fallible)]

\* generate_existing_relation for `~>`: initializers only, always CloneMode::Auto
generate_existing_relation(mappings) ==
    LET field_usage == count_field_usage(mappings)
        fallible == has_fallible_fields(mappings)
    IN [owned |-> Procedure(<<>>,
                    [i \in 1..Len(mappings) |->
                        generate_field_init(mappings[i], i - 1, FALSE, field_usage, "Auto")],
                    fallible),
        ref |-> Procedure(<<>>,
                    [i \in 1..Len(mappings) |->
                        generate_field_init(mappings[i], i - 1, TRUE, field_usage, "Auto")],
                    fallible)]

(***************************************************************************)
(* Directions, conversion modes and reversal                               *)
(***************************************************************************)
\* what the user asked for: `~` / `both`, `~>?` / `try_from`, `[E]` / `error = E`
Request(bidirectional, force_try_from, error_type) ==
    [bidirectional |-> bidirectional, force_try_from |-> force_try_from,
     error_type |-> error_type]

\* relate::types::Direction
Direction(kind, error) == [kind |-> kind, error |-> error]

\* `~` alone is Bidirectional, `~>` is Forward, `~>?` and `~>?[E]` are TryForward
Direction_parse(req) ==
    IF req.bidirectional THEN Direction("Bidirectional", "None")
    ELSE IF req.force_try_from THEN Direction("TryForward", req.error_type)
    ELSE Direction("Forward", "None")

\* an upgrade that leaves a bidirectional request infallible
effective_direction_keeps_bidirectional(direction, mappings) ==
    IF has_fallible_fields(mappings) /\ direction.kind # "Bidirectional"
    THEN Direction("TryForward", direction.error)
    ELSE direction

effective_direction(direction, mappings) ==
    IF has_fallible_fields(mappings)
    THEN CASE direction.kind = "Forward" -> Direction("TryForward", "None")
           [] direction.kind = "TryForward" -> Direction("TryForward", direction.error)
           [] direction.kind = "Bidirectional" -> Direction("TryForward", "None")
    ELSE direction

\* from_derive::types::ConversionMode
ConversionMode(kind, error) == [kind |-> kind, error |-> error]

\* the fields consulted before the explicit error type
determine_conversion_mode_fields_first(mappings, explicit_error, force_try_from) ==
    IF has_fallible_fields(mappings) THEN ConversionMode("Fallible", "None")
    ELSE IF explicit_error # "None" THEN ConversionMode("Fallible", explicit_error)
    ELSE IF force_try_from THEN ConversionMode("Fallible", "None")
    ELSE ConversionMode("Infallible", "None")

determine_conversion_mode(mappings, explicit_error, force_try_from) ==
    IF explicit_error # "None" THEN ConversionMode("Fallible", explicit_error)
    ELSE IF force_try_from THEN ConversionMode("Fallible", "None")
    ELSE IF has_fallible_fields(mappings) THEN ConversionMode("Fallible", "None")
    ELSE ConversionMode("Infallible", "None")

ReverseStrategy == {"IdentityOnly", "AllNonDefault"}

\* the table of count_reverse_field_usage: target field -> number of
\* non-default mappings that write it
count_reverse_field_usage(mappings) ==
    LET used == {i \in 1..Len(mappings) : ~is_default_kind(mappings[i].source.transform)}
    IN [t \in {mappings[i].target_field : i \in used} |->
           Cardinality({i \in used : mappings[i].target_field = t})]

\* a reversal that leaves out the fields annotated `cloned`
generate_reverse_field_init_skips_cloned(mapping, is_ref, field_usage, strategy) ==
    IF is_default_kind(mapping.source.transform) \/ mapping.source.clone_mode = "Cloned"
    THEN <<>>
    ELSE <<FieldInit(get_field_name(mapping.source, mapping.target_field),
                     field_access(mapping.target_field, is_ref))>>

\* a reversal that also reverses the default-kind mappings
generate_reverse_field_init_reverses_defaults(mapping, is_ref, field_usage, strategy) ==
    IF strategy = "IdentityOnly" /\ mapping.source.transform.kind \in {"WithExpr", "CollectionMap"}
    THEN <<>>
    ELSE <<FieldInit(get_field_name(mapping.source, mapping.target_field),
                     field_access(mapping.target_field, is_ref))>>

\* a backward initializer that duplicates as the field's clone mode says
generate_reverse_field_init_by_clone_mode(mapping, is_ref, field_usage, strategy) ==
    LET target == mapping.target_field
        mode == effective_mode(mapping.source, "Auto")
    IN IF is_default_kind(mapping.source.transform) THEN <<>>
       ELSE IF strategy = "IdentityOnly" /\ mapping.source.transform.kind # "Identity"
       THEN <<>>
       ELSE LET should_clone ==
                    CASE mode \in {"Move", "Copy"} -> FALSE
                      [] mode = "Cloned" -> TRUE
                      [] OTHER -> is_ref \/ (IF target \in DOMAIN field_usage
                                             THEN field_usage[target] ELSE 0) > 1
            IN <<FieldInit(get_field_name(mapping.source, target),
                           field_access(target, should_clone))>>

\* Option<TokenStream> as a sequence of zero or one initializer
generate_reverse_field_init(mapping, is_ref, field_usage, strategy) ==
    LET target == mapping.target_field
    IN IF is_default_kind(mapping.source.transform) THEN <<>>
       ELSE IF strategy = "IdentityOnly" /\ mapping.source.transform.kind # "Identity"
       THEN <<>>
       ELSE LET should_clone ==
                    is_ref \/ (IF target \in DOMAIN field_usage
                               THEN field_usage[target] ELSE 0) > 1
                source_field == get_field_name(mapping.source, target)
            IN <<FieldInit(source_field, field_access(target, should_clone))>>

\* fields.iter().filter_map(generate_reverse_field_init).collect()
RECURSIVE reverse_field_inits(_, _, _, _, _)
reverse_field_inits(mappings, is_ref, field_usage, strategy, i) ==
    IF i > Len(mappings) THEN <<>>
    ELSE generate_reverse_field_init(mappings[i], is_ref, field_usage, strategy)
         \o reverse_field_inits(mappings, is_ref, field_usage, strategy, i + 1)

\* one emitted `impl From<from> for ..` or `impl TryFrom<from> for ..` block;
\* `from` is the record type converted from, by value or by reference
Impl(trait, from, is_ref, error, lets, inits) ==
    [trait |-> trait, from |-> from, is_ref |-> is_ref, error |-> error,
     lets |-> lets, inits |-> inits]

generate_from_impl_pair(source_type, owned_fields, ref_fields) ==
    <<Impl("From", source_type, FALSE, "", <<>>, owned_fields),
      Impl("From", source_type, TRUE, "", <<>>, ref_fields)>>

generate_try_from_impl_pair(source_type, error_type, owned_fields, ref_fields) ==
    <<Impl("TryFrom", source_type, FALSE, error_type, <<>>, owned_fields),
      Impl("TryFrom", source_type, TRUE, error_type, <<>>, ref_fields)>>

error_or_default(error_type) ==
    IF error_type = "None" THEN "::relate::ConversionError" ELSE error_type

\* backward impls decided by the upgraded direction instead of the written one
generate_relate_output_backward_by_effective(direction, mappings) ==
    LET forward == generate_existing_relation(mappings)
        effective_dir == effective_direction(direction, mappings)
        forward_impls ==
            IF effective_dir.kind = "TryForward"
            THEN generate_try_from_impl_pair("Source", error_or_default(effective_dir.error),
                                             forward.owned.inits, forward.ref.inits)
            ELSE generate_from_impl_pair("Source", forward.owned.inits, forward.ref.inits)
        reverse_usage == count_reverse_field_usage(mappings)
        backward_impls ==
            IF effective_dir.kind = "Bidirectional"
            THEN generate_from_impl_pair("Target",
                    reverse_field_inits(mappings, FALSE, reverse_usage, "IdentityOnly", 1),
                    reverse_field_inits(mappings, TRUE, reverse_usage, "IdentityOnly", 1))
            ELSE <<>>
    IN forward_impls \o backward_impls

\* everything generate_existing_relation emits for one relation with a body
generate_relate_output(direction, mappings) ==
    LET forward == generate_existing_relation(mappings)
        effective_dir == effective_direction(direction, mappings)
        forward_impls ==
            IF effective_dir.kind = "TryForward"
            THEN generate_try_from_impl_pair("Source", error_or_default(effective_dir.error),
                                             forward.owned.inits, forward.ref.inits)
            ELSE generate_from_impl_pair("Source", forward.owned.inits, forward.ref.inits)
        reverse_usage == count_reverse_field_usage(mappings)
        backward_impls ==
            IF direction.kind = "Bidirectional"
            THEN generate_from_impl_pair("Target",
                    reverse_field_inits(mappings, FALSE, reverse_usage, "IdentityOnly", 1),
                    reverse_field_inits(mappings, TRUE, reverse_usage, "IdentityOnly", 1))
            ELSE <<>>
    IN forward_impls \o backward_impls

generate_from_impl(mappings, struct_clone_mode, order, bidirectional) ==
    LET forward == generate_from_derive(mappings, struct_clone_mode, order)
        reverse_usage == count_reverse_field_usage(mappings)
    IN <<Impl("From", "Source", FALSE, "", forward.owned.lets, forward.owned.inits),
         Impl("From", "Source", TRUE, "", forward.ref.lets, forward.ref.inits)>>
       \o (IF bidirectional
           THEN <<Impl("From", "Target", FALSE, "", <<>>,
                     reverse_field_inits(mappings, FALSE, reverse_usage, "AllNonDefault", 1)),
                  Impl("From", "Target", TRUE, "", <<>>,
                     reverse_field_inits(mappings, TRUE, reverse_usage, "AllNonDefault", 1))>>
           ELSE <<>>)

generate_try_from_impl(mappings, struct_clone_mode, order, error_type) ==
    LET forward == generate_from_derive(mappings, struct_clone_mode, order)
        error == error_or_default(error_type)
    IN <<Impl("TryFrom", "Source", FALSE, error, forward.owned.lets, forward.owned.inits),
         Impl("TryFrom", "Source", TRUE, error, forward.ref.lets, forward.ref.inits)>>

\* parse_from_derive followed by generate_from_derive
derive_relate(req, mappings, struct_clone_mode, order) ==
    LET conversion_mode ==
            determine_conversion_mode(mappings, req.error_type, req.force_try_from)
    IN IF conversion_mode.kind = "Infallible"
       THEN generate_from_impl(mappings, struct_clone_mode, order, req.bidirectional)
       ELSE generate_try_from_impl(mappings, struct_clone_mode, order, conversion_mode.error)

\* syn::parse_macro_input! followed by generate_relate_output
relate_structs(req, mappings) == generate_relate_output(Direction_parse(req), mappings)

(***************************************************************************)
(* Inputs: the mapping sets the front ends can hand to the core            *)
(***************************************************************************)
\* the target record's field names, in declaration order
TargetNames == <<"a", "b", "c", "d", "e", "f">>

TokDotA == <<Pu("."), Id("a")>>                                \* .a
TokDotB == <<Pu("."), Id("b")>>                                \* .b
TokMethod == <<Id("_"), Pu("."), Id("m"), Grp("(", <<>>)>>     \* _.m()
TokItemId == <<Id("_"), Pu("."), Id("id")>>                    \* [_.id]

ExprG == Expr("Call", "g()")
ExprH == Expr("Call", "h()")
ExprM == Expr("MethodCall", "x.m()")
ExprNone == Expr("Path", "None")

\* field-level clone mode: absent, or one of the three keywords
FieldModes == {"None", "Cloned", "Move", "Copy"}

Catalog ==
    {FieldSource(Identity, m) : m \in FieldModes}
    \cup {FieldSource(WithExpr(t, FALSE), m) : t \in {TokDotA, TokDotB, TokMethod},
                                                m \in FieldModes}
    \cup {FieldSource(WithExpr(TokMethod, TRUE), m) : m \in FieldModes}
    \cup {FieldSource(CollectionMap(TokItemId), m) : m \in FieldModes}
    \cup {FieldSource(Default, "None")}
    \cup {FieldSource(DefaultExpr(e), "None") : e \in {ExprG, ExprM, ExprNone}}

RunCatalog ==
    {FieldSource(Identity, "None"),
     FieldSource(WithExpr(TokDotA, FALSE), "None"),
     FieldSource(WithExpr(TokMethod, TRUE), "None"),
     FieldSource(DefaultExpr(ExprG), "None"),
     FieldSource(DefaultExpr(ExprH), "None")}

(***************************************************************************)
(* The compiler as a state machine                                         *)
(***************************************************************************)
NoProcs == [owned |-> Procedure(<<>>, <<>>, FALSE), ref |-> Procedure(<<>>, <<>>, FALSE)]

IdleRun ==
    [status |-> "idle", variant |-> "owned", failing |-> {}, pc |-> 0,
     temps |-> <<>>, out |-> <<>>, err |-> "", calls |-> <<>>, log |-> <<>>]

\* `A ~> B { .. }` / `#[relate(A)]`
PlainForward == Request(FALSE, FALSE, "None")

NoTrip == [stage |-> "none", source |-> <<>>, target |-> <<>>, back |-> <<>>]

\* relate_structs! has no mapping-set level clone mode: it always passes Auto
Init ==
    /\ generator \in {"relate_structs", "derive"}
    /\ clone_mode \in IF generator = "derive" THEN CloneMode ELSE {"Auto"}
    /\ fields = <<>>
    /\ phase = "parse"
    /\ procs = NoProcs
    /\ run = IdleRun
    /\ request = PlainForward
    /\ output = <<>>
    /\ trip = NoTrip

RunInit ==
    /\ generator \in {"relate_structs", "derive"}
    /\ clone_mode = "Auto"
    /\ fields = <<>>
    /\ phase = "parse"
    /\ procs = NoProcs
    /\ run = IdleRun
    /\ request = PlainForward
    /\ output = <<>>
    /\ trip = NoTrip

\* the parser appends one FieldMapping (parse_field_mapping / parse_fields)
ParseField(source, max) ==
    /\ phase = "parse"
    /\ Len(fields) < max
    /\ fields' = Append(fields, FieldMapping(TargetNames[Len(fields) + 1], source))
    /\ UNCHANGED <<generator, clone_mode, phase, procs, run, request, output, trip>>

\* generate_relate_output / generate_from_derive
Generate ==
    /\ phase = "parse"
    /\ \E order \in IterationOrders(HoistedKeys(fields)) :
          /\ procs' = IF generator = "derive"
                      THEN generate_from_derive(fields, clone_mode, order)
                      ELSE generate_existing_relation(fields)
          /\ output' = IF generator = "derive"
                       THEN derive_relate(request, fields, clone_mode, order)
                       ELSE relate_structs(request, fields)
    /\ phase' = "emitted"
    /\ UNCHANGED <<generator, clone_mode, fields, run, request, trip>>

(***************************************************************************)
(* Execution of an emitted forward procedure                               *)
(***************************************************************************)
FallibleTargets ==
    {fields[i].target_field : i \in {j \in 1..Len(fields) :
                                        is_fallible(fields[j].source.transform)}}

FieldIndex(target) == CHOOSE i \in 1..Len(fields) : fields[i].target_field = target

Proc == procs[run.variant]

\* a run-time value: what produced it, which invocation of a generator call,
\* and whether it is still wrapped in a Result
RtValue(of, n, result) == [of |-> of, n |-> n, result |-> result]

\* Evaluate one emitted value for `target`.  A fallible user expression
\* yields a Result; the emitted `?` unwraps it or returns its error.
Eval(value, target) ==
    LET calls == IF value.form = "default_expr"
                 THEN IF value.expr.text \in DOMAIN run.calls
                      THEN [run.calls EXCEPT ![value.expr.text] = @ + 1]
                      ELSE run.calls @@ (value.expr.text :> 1)
                 ELSE run.calls
        yields_result == /\ value.form = "with_expr"
                         /\ fields[FieldIndex(target)].source.transform.fallible
        is_err == yields_result /\ target \in run.failing
        raw ==
            CASE value.form = "default_default" -> RtValue("Default::default()", 0, "none")
              [] value.form = "default_expr" ->
                    RtValue(value.expr.text,
                            IF value.expr.kind \in {"Call", "MethodCall"}
                            THEN calls[value.expr.text] ELSE 0, "none")
              [] value.form = "field_access" -> RtValue("src." \o value.field, 0, "none")
              [] value.form = "with_expr" ->
                    RtValue(FlatText(value.tokens), 0,
                            IF ~yields_result THEN "none"
                            ELSE IF is_err THEN "Err" ELSE "Ok")
              [] value.form = "collect" ->
                    RtValue("src." \o value.field \o ".iter()", 0, "none")
              [] value.form = "binding" -> run.temps[value.binding]
    IN [failed |-> value.try /\ is_err,
        val |-> IF value.try /\ raw.result = "Ok" THEN [raw EXCEPT !.result = "none"]
                ELSE raw,
        calls |-> calls]

\* the log entry of one evaluated statement
Event(value, target, stmt, val) ==
    [op |-> value.form, field |-> target, stmt |-> stmt, of |-> val.of]

\* a caller invokes the owned or the reference-taking procedure on a source
\* record on which the fallible expressions of `failing` fail
Call(variant, failing) ==
    /\ phase = "emitted"
    /\ run.status = "idle"
    /\ failing \subseteq FallibleTargets
    /\ run' = [IdleRun EXCEPT !.status = "running", !.variant = variant,
                              !.failing = failing, !.pc = 1]
    /\ UNCHANGED <<generator, clone_mode, fields, phase, procs, request, output, trip>>

\* one `let` statement
ExecLet ==
    /\ run.status = "running"
    /\ run.pc <= Len(Proc.lets)
    /\ LET b == Proc.lets[run.pc]
           r == Eval(b.value, b.target)
           log == Append(run.log, Event(b.value, b.target, "let", r.val))
       IN run' = IF r.failed
                 THEN [run EXCEPT !.status = "err", !.err = b.target,
                                  !.calls = r.calls, !.log = log]
                 ELSE [run EXCEPT !.pc = @ + 1, !.calls = r.calls, !.log = log,
                                  !.temps = (b.name :> r.val) @@ @]
    /\ UNCHANGED <<generator, clone_mode, fields, phase, procs, request, output, trip>>

\* one initializer of `Self { .. }`, in the order written
ExecInit ==
    /\ run.status = "running"
    /\ run.pc > Len(Proc.lets)
    /\ run.pc <= Len(Proc.lets) + Len(Proc.inits)
    /\ LET f == Proc.inits[run.pc - Len(Proc.lets)]
           r == Eval(f.value, f.target)
           log == Append(run.log, Event(f.value, f.target, "construct", r.val))
       IN run' = IF r.failed
                 THEN [run EXCEPT !.status = "err", !.err = f.target,
                                  !.calls = r.calls, !.log = log]
                 ELSE [run EXCEPT !.pc = @ + 1, !.calls = r.calls, !.log = log,
                                  !.out = (f.target :> r.val) @@ @]
    /\ UNCHANGED <<generator, clone_mode, fields, phase, procs, request, output, trip>>

\* the record is complete: the procedure returns it
Return ==
    /\ run.status = "running"
    /\ run.pc = Len(Proc.lets) + Len(Proc.inits) + 1
    /\ run' = [run EXCEPT !.status = "ok"]
    /\ UNCHANGED <<generator, clone_mode, fields, phase, procs, request, output, trip>>

Next ==
    \/ \E source \in Catalog : ParseField(source, MaxFields)
    \/ Generate

Spec == Init /\ [][Next]_vars

RunNext ==
    \/ \E source \in RunCatalog : ParseField(source, MaxRunFields)
    \/ Generate
    \/ \E variant \in {"owned", "ref"}, failing \in SUBSET FallibleTargets :
          Call(variant, failing)
    \/ ExecLet
    \/ ExecInit
    \/ Return

RunSpec == RunInit /\ [][RunNext]_vars

(***************************************************************************)
(* Requested directions, and a record converted forward and back           *)
(***************************************************************************)
\* relate_structs! has four direction operators; the derive attribute takes
\* `both`, `try_from` and `error = E` in any combination
Requests(gen) ==
    IF gen = "relate_structs"
    THEN {Request(FALSE, FALSE, "None"), Request(TRUE, FALSE, "None"),
          Request(FALSE, TRUE, "None"), Request(FALSE, TRUE, "E")}
    ELSE {Request(b, t, e) : b \in BOOLEAN, t \in BOOLEAN, e \in {"None", "E"}}

DirCatalog ==
    {FieldSource(Identity, "None"),
     FieldSource(Identity, "Cloned"),
     FieldSource(WithExpr(TokDotB, FALSE), "None"),
     FieldSource(WithExpr(TokMethod, TRUE), "None"),
     FieldSource(CollectionMap(TokItemId), "None"),
     FieldSource(Default, "None"),
     FieldSource(DefaultExpr(ExprG), "None")}

DirInit ==
    /\ generator \in {"relate_structs", "derive"}
    /\ clone_mode = "Auto"
    /\ fields = <<>>
    /\ phase = "parse"
    /\ procs = NoProcs
    /\ run = IdleRun
    /\ request \in Requests(generator)
    /\ output = <<>>
    /\ trip = NoTrip

\* the source field an emitted forward initializer reads: `src.<field>`
SourceFieldRead(mapping) ==
    IF mapping.source.transform.kind = "WithExpr"
    THEN LET normalized == TrimStartDots(replace_underscore_in_tokens(
                               mapping.source.transform.tokens, mapping.target_field))
         IN IF Len(normalized) > 0 /\ normalized[1].kind = "Ident"
            THEN normalized[1].text ELSE ""
    ELSE get_field_name(mapping.source, mapping.target_field)

\* the fields of the source record that the mapping set reads
SourceFields ==
    {SourceFieldRead(fields[i]) : i \in {j \in 1..Len(fields) : reads_field(fields[j].source)}}

\* a field value: an absent or a present optional
FieldValues == {"None", "Some(x)"}

\* the value an emitted expression yields on the record `src`
ValueOf(value, lets, src) ==
    LET plain(v) ==
            CASE v.form = "field_access" ->
                    IF v.field \in DOMAIN src THEN src[v.field] ELSE "no such field"
              [] v.form = "default_default" -> "Default::default()"
              [] v.form = "default_expr" -> v.expr.text
              [] v.form = "with_expr" -> FlatText(v.tokens)
              [] v.form = "collect" -> "src." \o v.field \o ".iter().collect()"
              [] OTHER -> "unbound"
    IN IF value.form = "binding"
       THEN LET k == CHOOSE k \in 1..Len(lets) : lets[k].name = value.binding
            IN plain(lets[k].value)
       ELSE plain(value)

\* the record `Self { .. }` that one emitted procedure builds from `src`
Apply(impl, src) ==
    [t \in {impl.inits[i].target : i \in 1..Len(impl.inits)} |->
        LET i == CHOOSE i \in 1..Len(impl.inits) : impl.inits[i].target = t
        IN ValueOf(impl.inits[i].value, impl.lets, src)]

ImplsFrom(from, is_ref) ==
    {k \in 1..Len(output) : output[k].from = from /\ output[k].is_ref = is_ref}

\* a caller converts a source record with the owned or the reference-taking
\* forward procedure (the conversion succeeds)
ConvertForward(is_ref, src) ==
    /\ phase = "emitted"
    /\ trip.stage = "none"
    /\ \E k \in ImplsFrom("Source", is_ref) :
          trip' = [stage |-> "forward", source |-> src,
                   target |-> Apply(output[k], src), back |-> <<>>]
    /\ UNCHANGED <<generator, clone_mode, fields, phase, procs, run, request, output>>

\* and converts the result back with a backward procedure
ConvertBackward(is_ref) ==
    /\ trip.stage = "forward"
    /\ \E k \in ImplsFrom("Target", is_ref) :
          trip' = [trip EXCEPT !.stage = "back", !.back = Apply(output[k], trip.target)]
    /\ UNCHANGED <<generator, clone_mode, fields, phase, procs, run, request, output>>

DirNext ==
    \/ \E source \in DirCatalog : ParseField(source, MaxDirFields)
    \/ Generate
    \/ \E is_ref \in BOOLEAN, src \in [SourceFields -> FieldValues] :
          ConvertForward(is_ref, src)
    \/ \E is_ref \in BOOLEAN : ConvertBackward(is_ref)

DirSpec == DirInit /\ [][DirNext]_vars

(***************************************************************************)
(* Expressions handed to the rewriter                                      *)
(***************************************************************************)
\* the tokens an expression is built from, groups nested up to depth two
TokenAlphabet ==
    {Pu("."), Id("m"), Id("_"),
     Grp("(", <<>>),
     Grp("(", <<Id("_")>>),
     Grp("(", <<Pu("."), Id("_")>>),
     Grp("[", <<Grp("(", <<Id("_"), Pu("."), Id("m")>>)>>)}

TokenSeqs == UNION {[1..n -> TokenAlphabet] : n \in 0..MaxTokens}

\* nothing, the bare placeholder, the dot-prefixed placeholder, an explicit access
Prefixes ==
    {<<>>, <<Id("_")>>, <<Pu("."), Id("_")>>, <<Pu("."), Id("a")>>, <<Pu("."), Id("b")>>}

KeyCatalog ==
    {FieldSource(WithExpr(prefix \o suffix, FALSE), "None") :
        prefix \in Prefixes, suffix \in TokenSeqs}

\* one `with = <expr>` mapping for a target field named a or b
KeyInit ==
    /\ generator \in {"relate_structs", "derive"}
    /\ clone_mode = "Auto"
    /\ fields \in {<<FieldMapping(f, source)>> : f \in {"a", "b"}, source \in KeyCatalog}
    /\ phase = "parse"
    /\ procs = NoProcs
    /\ run = IdleRun
    /\ request = PlainForward
    /\ output = <<>>
    /\ trip = NoTrip

KeyNext == Generate

KeySpec == KeyInit /\ [][KeyNext]_vars

(***************************************************************************)
(* Expressions for the rewriter: dots after a keyword, a literal, an       *)
(* operator, `?`, an identifier and a group, at the top and inside groups  *)
(***************************************************************************)
RenderAlphabet ==
    {Pu("."), Id("_"), Id("m"), Id("if"), Lit("1"), Pu("!"), Pu("?"),
     Grp("(", <<Pu("."), Id("m")>>),
     Grp("[", <<Id("if"), Pu("."), Id("_"), Grp("(", <<Pu("."), Id("_")>>)>>)}

RenderSeqs == UNION {[1..n -> RenderAlphabet] : n \in 0..MaxRenderTokens}

RenderCatalog == {FieldSource(WithExpr(tokens, FALSE), "None") : tokens \in RenderSeqs}

\* one `with = <expr>` mapping for the target field a
RenderInit ==
    /\ generator \in {"relate_structs", "derive"}
    /\ clone_mode = "Auto"
    /\ fields \in {<<FieldMapping("a", source)>> : source \in RenderCatalog}
    /\ phase = "parse"
    /\ procs = NoProcs
    /\ run = IdleRun
    /\ request = PlainForward
    /\ output = <<>>
    /\ trip = NoTrip

RenderNext == Generate

RenderSpec == RenderInit /\ [][RenderNext]_vars

(***************************************************************************)
(* Relation bodies as `relate_structs!` parses them: the field names are   *)
(* written by the user, so a name can be written more than once            *)
(***************************************************************************)
BodyTargets == {"a", "b"}

BodyCatalog ==
    {FieldSource(Identity, "None"),
     FieldSource(Identity, "Cloned"),
     FieldSource(Identity, "Move"),
     FieldSource(WithExpr(TokDotB, FALSE), "None"),
     FieldSource(Default, "None")}

BodyInit ==
    /\ generator \in {"relate_structs", "derive"}
    /\ clone_mode = "Auto"
    /\ fields = <<>>
    /\ phase = "parse"
    /\ procs = NoProcs
    /\ run = IdleRun
    /\ request \in Requests(generator)
    /\ output = <<>>
    /\ trip = NoTrip

\* RelationBody::parse: `fields.push(parse_field_mapping(&content)?)`; the
\* derive takes the names from the fields of a struct, which are distinct
ParseFieldMapping(target, source) ==
    /\ phase = "parse"
    /\ Len(fields) < MaxBodyFields
    /\ generator = "derive" =>
          \A i \in 1..Len(fields) : fields[i].target_field # target
    /\ fields' = Append(fields, FieldMapping(target, source))
    /\ UNCHANGED <<generator, clone_mode, phase, procs, run, request, output, trip>>

BodyNext ==
    \/ \E target \in BodyTargets, source \in BodyCatalog : ParseFieldMapping(target, source)
    \/ Generate

BodySpec == BodyInit /\ [][BodyNext]_vars

(***************************************************************************)
(* Mapping sets with shared default expressions under every clone mode     *)
(***************************************************************************)
DefaultCatalog ==
    {FieldSource(Identity, "None"),
     FieldSource(DefaultExpr(ExprG), "None"),
     FieldSource(DefaultExpr(ExprH), "None"),
     FieldSource(DefaultExpr(ExprNone), "None")}

DefaultNext ==
    \/ \E source \in DefaultCatalog : ParseField(source, MaxDefaultFields)
    \/ Generate

DefaultSpec == Init /\ [][DefaultNext]_vars

(***************************************************************************)
(* Mapping sets of Identity fields and single source field accesses        *)
(***************************************************************************)
\* `_`, `._`, `.a`, `.b`, `.c`
SingleAccessForms ==
    {<<Id("_")>>, <<Pu("."), Id("_")>>, TokDotA, TokDotB, <<Pu("."), Id("c")>>}

MoveCatalog ==
    {FieldSource(Identity, "None")}
    \cup {FieldSource(WithExpr(tokens, FALSE), "None") : tokens \in SingleAccessForms}

MoveNext ==
    \/ \E source \in MoveCatalog : ParseField(source, MaxMoveFields)
    \/ Generate

MoveSpec == RunInit /\ [][MoveNext]_vars

(***************************************************************************)
(* Notions shared by the properties                                        *)
(***************************************************************************)
Variants == {"owned", "ref"}

Kind(i) == fields[i].source.transform.kind

EffectiveMode(i) == effective_mode(fields[i].source, clone_mode)

Reading == {i \in 1..Len(fields) : reads_field(fields[i].source)}

\* the let statements of a procedure that bind the temporary `name`
LetsNamed(proc, name) == {k \in 1..Len(proc.lets) : proc.lets[k].name = name}

\* the generator wrote a duplication call for field i: on its initializer, or
\* on the temporary its initializer reads
Dup(proc, i) ==
    LET v == proc.inits[i].value
    IN \/ v.clone
       \/ /\ v.form = "binding"
          /\ \E k \in LetsNamed(proc, v.binding) : proc.lets[k].value.clone

\* the usage table of the mapping set, and the tables that lack one of its keys
UsageTables ==
    LET usage == count_field_usage(fields)
    IN {usage} \cup {[k \in DOMAIN usage \ {gone} |-> usage[k]] : gone \in DOMAIN usage}

(***************************************************************************)
(* C1: the clone decision equals the first matching rule of the decision   *)
(* list (default kind -> no, Copy -> no, Cloned -> yes, reference variant  *)
(* -> yes, Move -> no, Auto: key absent or used once -> no, Identity at    *)
(* the key's last index -> no, otherwise yes), for every field of every    *)
(* mapping set under its effective mode, in both variants, with the usage  *)
(* table of the set and with the tables that lack one of its keys.         *)
(***************************************************************************)
DecisionList(mapping, field_index, is_ref, usage, mode) ==
    LET key == get_usage_key(mapping.source, mapping.target_field)
        present == key \in DOMAIN usage
    IN <<[when |-> mapping.source.transform.kind \in {"Default", "DefaultExpr"},
          clone |-> FALSE],
         [when |-> mode = "Copy", clone |-> FALSE],
         [when |-> mode = "Cloned", clone |-> TRUE],
         [when |-> is_ref, clone |-> TRUE],
         [when |-> mode = "Move", clone |-> FALSE],
         [when |-> ~present \/ usage[key].count <= 1, clone |-> FALSE],
         [when |-> /\ present
                   /\ mapping.source.transform.kind = "Identity"
                   /\ field_index = usage[key].last_index, clone |-> FALSE],
         [when |-> TRUE, clone |-> TRUE]>>

FirstMatch(rules) ==
    rules[CHOOSE k \in 1..Len(rules) :
            rules[k].when /\ \A j \in 1..(k - 1) : ~rules[j].when].clone

C1_CloneDecisionIsFirstMatch ==
    phase = "emitted" =>
        \A i \in 1..Len(fields), is_ref \in BOOLEAN, usage \in UsageTables :
            LET mode == EffectiveMode(i)
            IN should_clone_field(fields[i], i - 1, is_ref, usage, mode)
                  = FirstMatch(DecisionList(fields[i], i - 1, is_ref, usage, mode))

\* a key used twice whose last use is an Identity: the earlier use clones,
\* the last one moves
C1_Witness ==
    /\ phase = "emitted"
    /\ Len(fields) = 2
    /\ Kind(1) = "WithExpr" /\ Kind(2) = "Identity"
    /\ LET usage == count_field_usage(fields)
       IN /\ "b" \in DOMAIN usage /\ usage["b"].count = 2
          /\ should_clone_field(fields[1], 0, FALSE, usage, "Auto")
          /\ ~should_clone_field(fields[2], 1, FALSE, usage, "Auto")

(***************************************************************************)
(* C2: in every emitted forward procedure the duplication of a source-     *)
(* reading field follows its effective clone mode: Cloned duplicates, Copy *)
(* writes no duplication call, Move writes none in the owned variant.      *)
(***************************************************************************)
C2_EffectiveModeDecidesDuplication ==
    phase = "emitted" =>
        \A variant \in Variants, i \in Reading :
            /\ EffectiveMode(i) = "Cloned" => Dup(procs[variant], i)
            /\ EffectiveMode(i) = "Copy" => ~Dup(procs[variant], i)
            /\ (EffectiveMode(i) = "Move" /\ variant = "owned") => ~Dup(procs[variant], i)

(***************************************************************************)
(* C3: when every usage key is used by exactly one field and only Auto is  *)
(* in effect, the owned procedure contains no duplication call at all,     *)
(* neither on a source access nor on any temporary.                        *)
(***************************************************************************)
SingleUseAuto ==
    /\ \A i \in 1..Len(fields) : EffectiveMode(i) = "Auto"
    /\ LET usage == count_field_usage(fields)
       IN \A k \in DOMAIN usage : usage[k].count = 1

C3_OwnedHasNoDuplicationCall ==
    (phase = "emitted" /\ SingleUseAuto) =>
        /\ \A k \in 1..Len(procs.owned.lets) : ~procs.owned.lets[k].value.clone
        /\ \A i \in 1..Len(procs.owned.inits) : ~procs.owned.inits[i].value.clone

\* C3 as amended: under the same condition the owned procedure duplicates no
\* source access and no arbitrary-expression temporary; only reads of a
\* hoisted default temporary are duplicated.
C3_OwnedDuplicatesNoSourceAccess ==
    (phase = "emitted" /\ SingleUseAuto) =>
        /\ \A i \in Reading : ~Dup(procs.owned, i)
        /\ \A k \in 1..Len(procs.owned.lets) : ~procs.owned.lets[k].value.clone
        /\ \A i \in 1..Len(procs.owned.inits) :
              procs.owned.inits[i].value.clone =>
                  /\ Kind(i) = "DefaultExpr"
                  /\ procs.owned.inits[i].value.form = "binding"

C3_Witness ==
    /\ phase = "emitted"
    /\ SingleUseAuto
    /\ Len(fields) = 2
    /\ Kind(1) = "Identity" /\ Kind(2) = "WithExpr"
    /\ ~tokens_contain_call(fields[2].source.transform.tokens)
    /\ ~Dup(procs.owned, 1) /\ ~Dup(procs.owned, 2)

Started == run.status # "idle"

\* the fields whose transform is an arbitrary expression
WithFields == {i \in 1..Len(fields) : Kind(i) = "WithExpr"}

\* the log positions at which the arbitrary expression of field i was evaluated
WithEvals(i) ==
    {k \in 1..Len(run.log) :
        run.log[k].op = "with_expr" /\ run.log[k].field = fields[i].target_field}

\* the fields that request the default expression `expr`
Requesting(expr) ==
    {i \in 1..Len(fields) :
        Kind(i) = "DefaultExpr" /\ fields[i].source.transform.expr = expr}

\* 1: an arbitrary-expression temporary, 2: a default-expression temporary,
\* 3: an initializer of the record construction
PhaseOf(event) ==
    IF event.stmt = "construct" THEN 3
    ELSE IF event.op = "with_expr" THEN 1 ELSE 2

\* the first field that requests the default expression with text `text`
FirstUse(text) ==
    CHOOSE i \in 1..Len(fields) :
        /\ Kind(i) = "DefaultExpr" /\ fields[i].source.transform.expr.text = text
        /\ \A j \in 1..(i - 1) :
              ~(Kind(j) = "DefaultExpr" /\ fields[j].source.transform.expr.text = text)

(***************************************************************************)
(* C5: in every emitted forward procedure of both generators, every        *)
(* arbitrary expression is evaluated into a temporary before the           *)
(* construction of the target record starts, never inside it.              *)
(***************************************************************************)
C5_ArbitraryExpressionsAreHoisted ==
    \A k \in 1..Len(run.log) : run.log[k].op = "with_expr" => run.log[k].stmt = "let"

(***************************************************************************)
(* C6: a procedure that has temporaries runs in three phases that never    *)
(* interleave: the arbitrary-expression temporaries in declaration order,  *)
(* then the default-expression temporaries in the order of their first     *)
(* use, then the construction, whose initializers read only temporaries    *)
(* and source fields (no arbitrary expression and no hoisted default is    *)
(* evaluated inside it) and are written once each, in mapping order.       *)
(***************************************************************************)
C6_ThreePhasesInOrder ==
    (Started /\ Len(Proc.lets) > 0) =>
        /\ \A k, l \in 1..Len(run.log) :
              k < l =>
                  /\ PhaseOf(run.log[k]) <= PhaseOf(run.log[l])
                  /\ (PhaseOf(run.log[k]) = 1 /\ PhaseOf(run.log[l]) = 1)
                        => FieldIndex(run.log[k].field) < FieldIndex(run.log[l].field)
                  /\ (PhaseOf(run.log[k]) = 2 /\ PhaseOf(run.log[l]) = 2)
                        => FirstUse(run.log[k].of) < FirstUse(run.log[l].of)
                  /\ (PhaseOf(run.log[k]) = 3 /\ PhaseOf(run.log[l]) = 3)
                        => FieldIndex(run.log[k].field) < FieldIndex(run.log[l].field)
        /\ \A k \in 1..Len(run.log) :
              PhaseOf(run.log[k]) = 3 =>
                  /\ run.log[k].op # "with_expr"
                  /\ run.log[k].op = "default_expr" =>
                        ~\E l \in 1..Len(run.log) :
                            PhaseOf(run.log[l]) = 2 /\ run.log[l].of = run.log[k].of
        /\ run.status = "ok" =>
              /\ \A i \in WithFields : \E k \in WithEvals(i) : PhaseOf(run.log[k]) = 1
              /\ Cardinality({k \in 1..Len(run.log) : PhaseOf(run.log[k]) = 3}) = Len(fields)

\* a finished run that went through all three phases
C6_Witness ==
    /\ run.status = "ok"
    /\ \E k, l, m \in 1..Len(run.log) :
          /\ PhaseOf(run.log[k]) = 1
          /\ PhaseOf(run.log[l]) = 2
          /\ PhaseOf(run.log[m]) = 3 /\ run.log[m].op = "field_access"

(***************************************************************************)
(* C7: hoisted arbitrary expressions are deduplicated by identical source  *)
(* text: when several fields carry the same expression text, a run         *)
(* evaluates it once, into one temporary that all those fields read.       *)
(***************************************************************************)
SameText(i, j) ==
    /\ i \in WithFields /\ j \in WithFields /\ i # j
    /\ fields[i].source.transform.tokens = fields[j].source.transform.tokens

C7_SameTextEvaluatedOnce ==
    run.status = "ok" =>
        \A i, j \in 1..Len(fields) :
            SameText(i, j) =>
                /\ Cardinality(WithEvals(i) \cup WithEvals(j)) = 1
                /\ Proc.inits[i].value = Proc.inits[j].value

\* C7 as amended: there is no deduplication; every arbitrary-expression
\* field is evaluated exactly once per run, and in the derive generator into
\* its own temporary `__with_<target>`, which only that field reads.
C7_OneEvaluationPerField ==
    run.status = "ok" =>
        /\ \A i \in WithFields : Cardinality(WithEvals(i)) = 1
        /\ generator = "derive" =>
              \A i \in WithFields :
                  /\ Proc.inits[i].value.form = "binding"
                  /\ Proc.inits[i].value.binding = "__with_" \o fields[i].target_field
                  /\ Cardinality(LetsNamed(Proc, Proc.inits[i].value.binding)) = 1
                  /\ \A j \in 1..Len(fields) :
                        Proc.inits[j].value.binding = Proc.inits[i].value.binding
                            => j = i

\* two fields with the same expression text, each evaluated into its own temporary
C7_Witness ==
    /\ run.status = "ok"
    /\ generator = "derive"
    /\ \E i, j \in 1..Len(fields) :
          /\ SameText(i, j)
          /\ Cardinality(WithEvals(i) \cup WithEvals(j)) = 2
          /\ run.temps["__with_" \o fields[i].target_field].of
                = run.temps["__with_" \o fields[j].target_field].of

(***************************************************************************)
(* C8: when two or more fields share one hoistable default expression,     *)
(* every run (owned or reference-taking) invokes it exactly once and all   *)
(* the sharing fields receive the value of that one invocation.            *)
(***************************************************************************)
C8_SharedDefaultInvokedOnce ==
    run.status = "ok" =>
        \A i, j \in 1..Len(fields) :
            (/\ i # j
             /\ Kind(i) = "DefaultExpr"
             /\ fields[i].source.transform.expr.kind \in {"Call", "MethodCall"}
             /\ j \in Requesting(fields[i].source.transform.expr))
            => /\ run.calls[fields[i].source.transform.expr.text] = 1
               /\ run.out[fields[i].target_field] = run.out[fields[j].target_field]

(***************************************************************************)
(* C9: a default expression is hoisted into a temporary if and only if its *)
(* identical text is requested by more than one field and it is a function *)
(* call or a method call; a default expression used once, a literal or a   *)
(* constant such as `None` is never hoisted and is evaluated inline in     *)
(* each field that requests it.  The hoisting pass is the one of the       *)
(* derive generator; relate_structs! has none, so there only the "never    *)
(* hoisted, evaluated inline" half applies.                                *)
(***************************************************************************)
\* the let statements of a procedure that evaluate the default expression `expr`
DefaultLets(proc, expr) ==
    {k \in 1..Len(proc.lets) :
        proc.lets[k].value.form = "default_expr" /\ proc.lets[k].value.expr = expr}

Shared(expr) == Cardinality(Requesting(expr)) > 1

SyntacticCall(expr) == expr.kind \in {"Call", "MethodCall"}

FailingIndexes == {i \in 1..Len(fields) : fields[i].target_field \in run.failing}

FirstFailing == CHOOSE i \in FailingIndexes : \A j \in FailingIndexes : i <= j

C10_FirstFailureEndsConversion ==
    Started =>
        /\ FailingIndexes # {} =>
              /\ run.status # "ok"
              /\ \A k \in 1..Len(run.log) : FieldIndex(run.log[k].field) <= FirstFailing
              /\ run.status = "err" => run.err = fields[FirstFailing].target_field
        /\ run.status = "err" => run.err \in run.failing
        /\ \A name \in DOMAIN run.temps : run.temps[name].result = "none"

\* two fields fail; the run ends at the first of them, after an earlier
\* field's expression was evaluated
C10_Witness ==
    /\ run.status = "err"
    /\ Cardinality(run.failing) >= 2
    /\ FirstFailing > 1
    /\ Len(run.log) >= 2
    /\ run.err = fields[FirstFailing].target_field

(***************************************************************************)
(* Notions of the emitted impl blocks                                      *)
(***************************************************************************)
ForwardImpls == {k \in 1..Len(output) : output[k].from = "Source"}

BackwardImpls == {k \in 1..Len(output) : output[k].from = "Target"}

FallibilityRequested == request.force_try_from \/ request.error_type # "None"

\* the n-th source-reading mapping, in mapping order
NthReading(n) == CHOOSE i \in Reading : Cardinality({j \in Reading : j < i}) = n - 1

\* the value is computed without the source record
ReadsNoSource(value, lets) ==
    \/ value.form \in {"default_default", "default_expr"}
    \/ /\ value.form = "binding"
       /\ \A k \in 1..Len(lets) :
             lets[k].name = value.binding => lets[k].value.form = "default_expr"

(***************************************************************************)
(* C11: fallibility is all-or-nothing per direction: if any field is       *)
(* fallible, both forward procedures return a result, also for a plain     *)
(* forward or a bidirectional request; if no field is fallible and no      *)
(* fallibility was requested, both return the record directly; the owned   *)
(* and the reference-taking procedure never differ.                        *)
(***************************************************************************)
C11_FallibilityAllOrNothing ==
    phase = "emitted" =>
        /\ ForwardImpls # {}
        /\ has_fallible_fields(fields) =>
              \A k \in ForwardImpls : output[k].trait = "TryFrom"
        /\ (~has_fallible_fields(fields) /\ ~FallibilityRequested) =>
              \A k \in ForwardImpls : output[k].trait = "From"
        /\ \A k, l \in 1..Len(output) :
              output[k].from = output[l].from =>
                  /\ output[k].trait = output[l].trait
                  /\ output[k].error = output[l].error

\* a bidirectional request with a fallible field: both forward procedures
\* are TryFrom
C11_Witness ==
    /\ phase = "emitted"
    /\ request = Request(TRUE, FALSE, "None")
    /\ has_fallible_fields(fields)
    /\ Cardinality(ForwardImpls) = 2
    /\ \A k \in ForwardImpls : output[k].trait = "TryFrom"

(***************************************************************************)
(* C12: every requested direction yields exactly one owned and one         *)
(* reference-taking procedure: two procedures for a forward-only or        *)
(* fallible-forward request, all four for a bidirectional request,         *)
(* whatever the fallibility of the fields.                                 *)
(***************************************************************************)
C12_TwoProceduresPerDirection ==
    phase = "emitted" =>
        /\ \A is_ref \in BOOLEAN : Cardinality(ImplsFrom("Source", is_ref)) = 1
        /\ request.bidirectional =>
              /\ \A is_ref \in BOOLEAN : Cardinality(ImplsFrom("Target", is_ref)) = 1
              /\ Len(output) = 4
        /\ ~request.bidirectional => Len(output) = 2

(***************************************************************************)
(* C13: under IdentityOnly (relate_structs!), a bidirectional request with *)
(* a non-default mapping that is not a pure Identity is rejected before    *)
(* any procedure is emitted, not silently left out of the backward ones.   *)
(***************************************************************************)
C13_IdentityOnlyRejectsNonIdentity ==
    (/\ phase = "emitted"
     /\ generator = "relate_structs"
     /\ request.bidirectional
     /\ \E i \in Reading : Kind(i) # "Identity")
    => output = <<>>

(***************************************************************************)
(* C14: under AllNonDefault (derive), every non-default forward mapping    *)
(* yields exactly one backward initializer, which reads the forward target *)
(* field and writes the source field the forward mapping reads: `s: src.t` *)
(***************************************************************************)
C14_BackwardWritesSourceField ==
    (phase = "emitted" /\ generator = "derive") =>
        \A k \in BackwardImpls :
            /\ Len(output[k].inits) = Cardinality(Reading)
            /\ \A n \in 1..Len(output[k].inits) :
                  LET mapping == fields[NthReading(n)]
                      init == output[k].inits[n]
                  IN /\ init.value.form = "field_access"
                     /\ init.value.field = mapping.target_field
                     /\ init.target = SourceFieldRead(mapping)

(***************************************************************************)
(* C15: round trip: for a bidirectional mapping set made only of Identity  *)
(* mappings that covers every field, converting a record forward and the   *)
(* result backward, with owned or reference-taking procedures, reproduces  *)
(* the record, for present and absent optionals alike.                     *)
(***************************************************************************)
IdentityOnlySet == \A i \in 1..Len(fields) : Kind(i) = "Identity"

C15_RoundTrip ==
    (trip.stage = "back" /\ IdentityOnlySet) => trip.back = trip.source

C15_Witness ==
    /\ trip.stage = "back"
    /\ IdentityOnlySet
    /\ Len(fields) = 2
    /\ fields[2].source.clone_mode = "Cloned"
    /\ trip.source = [a |-> "None", b |-> "Some(x)"]
    /\ trip.back = trip.source

(***************************************************************************)
(* C16: every forward procedure constructs the target with exactly one     *)
(* initializer per FieldMapping, in mapping order, in both variants; a     *)
(* Default or DefaultExpr mapping never reads the source record and never  *)
(* produces a backward initializer, under either reversal policy.          *)
(***************************************************************************)
C16_OneInitializerPerMapping ==
    phase = "emitted" =>
        /\ \A k \in ForwardImpls :
              /\ Len(output[k].inits) = Len(fields)
              /\ \A i \in 1..Len(fields) :
                    /\ output[k].inits[i].target = fields[i].target_field
                    /\ is_default_kind(fields[i].source.transform) =>
                          ReadsNoSource(output[k].inits[i].value, output[k].lets)
        /\ \A k \in BackwardImpls :
              /\ Len(output[k].inits) <= Cardinality(Reading)
              /\ \A n \in 1..Len(output[k].inits) :
                    \E i \in Reading :
                        output[k].inits[n].value.field = fields[i].target_field

\* all four procedures of a set with a default and a reading field
C16_Witness ==
    /\ phase = "emitted"
    /\ Len(output) = 4
    /\ Len(fields) = 2
    /\ Kind(1) = "DefaultExpr" /\ Kind(2) = "Identity"
    /\ \A k \in ForwardImpls : Len(output[k].inits) = 2
    /\ \A k \in BackwardImpls : Len(output[k].inits) = 1

(***************************************************************************)
(* C17: count_field_usage returns a table in which each key's count is the *)
(* number of non-default mappings with that key and its last_index the     *)
(* largest index of such a mapping; default-kind mappings contribute no    *)
(* key, and the counts sum to the number of source-reading mappings.       *)
(***************************************************************************)
KeyOf(i) == get_usage_key(fields[i].source, fields[i].target_field)

RECURSIVE SumCounts(_, _)
SumCounts(usage, keys) ==
    IF keys = {} THEN 0
    ELSE LET k == CHOOSE k \in keys : TRUE
         IN usage[k].count + SumCounts(usage, keys \ {k})

C17_UsageTableCountsReadingMappings ==
    LET usage == count_field_usage(fields)
    IN /\ DOMAIN usage = {KeyOf(i) : i \in Reading}
       /\ \A k \in DOMAIN usage :
             LET users == {i \in Reading : KeyOf(i) = k}
             IN /\ usage[k].count = Cardinality(users)
                /\ usage[k].last_index + 1 \in users
                /\ \A i \in users : i <= usage[k].last_index + 1
       /\ SumCounts(usage, DOMAIN usage) = Cardinality(Reading)

\* two mappings share a key and a default-kind mapping is skipped
C17_Witness ==
    /\ phase = "emitted"
    /\ Len(fields) = MaxDirFields
    /\ \E i, j \in Reading : i < j /\ KeyOf(i) = KeyOf(j)
          /\ count_field_usage(fields)[KeyOf(i)] = FieldUsage(2, j - 1)
    /\ procs.owned.inits[1].value.clone

(***************************************************************************)
(* C19: usage keys separate values exactly: two mappings of one set get    *)
(* the same usage key if they read the same source value, and mappings     *)
(* that read different source values (such as collection maps over         *)
(* different source fields with the same per-element expression) never     *)
(* get the same key.                                                       *)
(***************************************************************************)
\* the source value a mapping reads: the expression its initializer evaluates
SourceValue(mapping) ==
    LET field == get_field_name(mapping.source, mapping.target_field)
        transform == mapping.source.transform
    IN CASE transform.kind = "WithExpr" ->
               FlatText(transform_with_expr_tokens(transform.tokens, field))
         [] transform.kind = "CollectionMap" ->
               "src." \o field \o ".iter().map(|__item|"
                   \o FlatText(replace_placeholder(transform.tokens, "__item")) \o ")"
         [] OTHER -> "src." \o field

C19_UsageKeysSeparateValues ==
    \A i, j \in Reading :
        (KeyOf(i) = KeyOf(j)) <=> (SourceValue(fields[i]) = SourceValue(fields[j]))

(***************************************************************************)
(* C18: for every field f, the usage keys of an arbitrary expression       *)
(* written with the bare placeholder `_`, with the dot-prefixed            *)
(* placeholder `._` and with the explicit access `.f` are identical, also  *)
(* when the same suffix follows each of the three forms.                   *)
(***************************************************************************)
Forms(f) == {<<Id("_")>>, <<Pu("."), Id("_")>>, <<Pu("."), Id(f)>>}

\* the expression begins with one of the three forms of field f
HasForm(tokens, f) ==
    \E p \in Forms(f) : Len(tokens) >= Len(p) /\ SubSeq(tokens, 1, Len(p)) = p

\* what follows the form
SuffixOf(tokens, f) ==
    LET p == CHOOSE p \in Forms(f) :
                 Len(tokens) >= Len(p) /\ SubSeq(tokens, 1, Len(p)) = p
    IN SubSeq(tokens, Len(p) + 1, Len(tokens))

C18_PlaceholderFormsShareKey ==
    \A i \in WithFields :
        LET f == fields[i].target_field
            tokens == fields[i].source.transform.tokens
        IN HasForm(tokens, f) =>
              \A p \in Forms(f) :
                  get_usage_key(FieldSource(WithExpr(p \o SuffixOf(tokens, f), FALSE), "None"), f)
                      = get_usage_key(fields[i].source, f)

\* `_.m` compiled for field b: its key is that of `.b.m`
C18_Witness ==
    /\ phase = "emitted"
    /\ Len(fields) = 1
    /\ fields[1].target_field = "b"
    /\ fields[1].source.transform.tokens = <<Id("_"), Pu("."), Id("m")>>
    /\ get_usage_key(fields[1].source, "b") = "b.m"
    /\ "b.m" \in DOMAIN count_field_usage(fields)

(***************************************************************************)
(* C20: normalization is idempotent: normalize(normalize(e, f), f) equals  *)
(* normalize(e, f) for every expression e and field f, at every nesting    *)
(* depth of grouped sub-expressions.                                       *)
(***************************************************************************)
C20_NormalizationIsIdempotent ==
    \A i \in WithFields :
        LET f == fields[i].target_field
            normalized == replace_underscore_in_tokens(fields[i].source.transform.tokens, f)
        IN replace_underscore_in_tokens(normalized, f) = normalized

\* an expression with a placeholder at the top and one two groups deep, which
\* normalization changes
C20_Witness ==
    /\ phase = "emitted"
    /\ Len(fields) = 1
    /\ LET tokens == fields[1].source.transform.tokens
           f == fields[1].target_field
       IN /\ Len(tokens) >= 2
          /\ tokens[1] = Id("_")
          /\ \E k \in 2..Len(tokens) :
                /\ tokens[k].kind = "Group"
                /\ \E n \in 1..Len(tokens[k].stream) : tokens[k].stream[n].kind = "Group"
          /\ replace_underscore_in_tokens(tokens, f) # tokens
          /\ replace_underscore_in_tokens(tokens, f)
                = <<Pu("."), Id(f)>>
                  \o replace_underscore_in_tokens(SubSeq(tokens, 2, Len(tokens)), f)

(***************************************************************************)
(* The expression rewriter                                                 *)
(***************************************************************************)
RECURSIVE Concat(_)
Concat(seqs) == IF seqs = <<>> THEN <<>> ELSE Head(seqs) \o Concat(Tail(seqs))

\* the emitted value of the with-expression mapping i in variant v
WithValue(v, i) ==
    LET lets == {n \in 1..Len(procs[v].lets) :
                    /\ procs[v].lets[n].target = fields[i].target_field
                    /\ procs[v].lets[n].value.form = "with_expr"}
    IN IF lets # {} THEN procs[v].lets[CHOOSE n \in lets : TRUE].value
       ELSE procs[v].inits[i].value

\* the dot at k continues an expression: it follows an identifier that is a
\* name, a group or closing bracket, or `?`
Continues(tokens, k) ==
    /\ k > 1
    /\ \/ tokens[k - 1].kind = "Ident" /\ tokens[k - 1].text \notin Keywords
       \/ tokens[k - 1].kind = "Group"
       \/ tokens[k - 1].kind = "Punct" /\ tokens[k - 1].text \in {")", "]", "}", "?"}

\* the dot at k starts a field access on the source
StartsAccess(tokens, k) ==
    /\ tokens[k] = Pu(".")
    /\ k < Len(tokens)
    /\ tokens[k + 1].kind = "Ident"
    /\ ~Continues(tokens, k)

\* what the rewriter is to produce, token by token
RECURSIVE Rendered(_, _)
Rendered(tokens, field) ==
    Concat([k \in 1..Len(tokens) |->
        IF tokens[k] = Id("_")
        THEN IF k > 1 /\ tokens[k - 1] = Pu(".")
             THEN <<Id(field)>>
             ELSE <<Id("src"), Pu("."), Id(field)>>
        ELSE IF StartsAccess(tokens, k) THEN <<Id("src"), Pu(".")>>
        ELSE IF tokens[k].kind = "Group"
        THEN <<Grp(tokens[k].text, Rendered(tokens[k].stream, field))>>
        ELSE <<tokens[k]>>])

C22_CompilationIsDeterministic ==
    generator = "derive" =>
        \A o1, o2 \in IterationOrders(HoistedKeys(fields)) :
            /\ generate_from_derive(fields, clone_mode, o1)
                  = generate_from_derive(fields, clone_mode, o2)
            /\ derive_relate(request, fields, clone_mode, o1)
                  = derive_relate(request, fields, clone_mode, o2)

(***************************************************************************)
(* Library paths in the emitted code                                       *)
(***************************************************************************)
FullyQualified(written) == Len(written) >= 1 /\ written[1] = Pu("::")

EmittedValues(v) ==
    {procs[v].lets[n].value : n \in 1..Len(procs[v].lets)}
    \cup {procs[v].inits[n].value : n \in 1..Len(procs[v].inits)}

\* C23: every library operation the emitted code names (default construction,
\* duplication, conversion, result construction) is written as a fully
\* qualified path; in particular every duplication is a fully qualified call.
C23_LibraryOperationsFullyQualified ==
    phase = "emitted" =>
        \A v \in Variants :
            /\ \A op \in procedure_operations(procs[v]) : FullyQualified(op.written)
            /\ \A value \in EmittedValues(v) :
                  \A op \in library_operations(value) : FullyQualified(op.written)

(***************************************************************************)
(* Duplicate target fields                                                 *)
(***************************************************************************)
DuplicateTargets ==
    {i \in 1..Len(fields) :
        \E j \in 1..Len(fields) : j < i /\ fields[j].target_field = fields[i].target_field}

\* C24: a mapping set in which two mappings name the same target field is
\* rejected: no procedure is emitted for it.
C24_DuplicateTargetRejected ==
    (phase = "emitted" /\ DuplicateTargets # {}) =>
        /\ output = <<>>
        /\ procs = NoProcs

(***************************************************************************)
(* Duplication in the backward procedures                                  *)
(***************************************************************************)
\* the non-default mappings written for target field t
ReverseCount(t) ==
    Cardinality({i \in 1..Len(fields) :
        /\ fields[i].target_field = t
        /\ Kind(i) \notin {"Default", "DefaultExpr"}})

\* C25: count_reverse_field_usage counts each non-default mapping once under
\* its target field; a backward reference-taking initializer always duplicates
\* `src.<target>`, a backward owned one duplicates it exactly when the target's
\* reverse count exceeds 1, whatever the clone modes are.
C25_BackwardDuplicationByReverseCount ==
    /\ LET usage == count_reverse_field_usage(fields)
       IN /\ DOMAIN usage = {t \in {fields[i].target_field : i \in 1..Len(fields)} :
                                ReverseCount(t) > 0}
          /\ \A t \in DOMAIN usage : usage[t] = ReverseCount(t)
    /\ phase = "emitted" =>
          \A k \in BackwardImpls : \A n \in 1..Len(output[k].inits) :
              LET value == output[k].inits[n].value
              IN /\ value.form = "field_access"
                 /\ value.clone <=> (output[k].is_ref \/ ReverseCount(value.field) > 1)

\* `a: move; a; b: cloned;` both ways: the owned backward procedure duplicates
\* both reads of `a` and moves `b`, the reference-taking one duplicates all
C25_Witness ==
    /\ phase = "emitted"
    /\ request.bidirectional
    /\ Len(fields) = 3
    /\ fields[1] = FieldMapping("a", FieldSource(Identity, "Move"))
    /\ fields[2] = FieldMapping("a", FieldSource(Identity, "None"))
    /\ fields[3] = FieldMapping("b", FieldSource(Identity, "Cloned"))
    /\ \E k \in BackwardImpls :
          /\ ~output[k].is_ref
          /\ [n \in 1..3 |-> output[k].inits[n].value.clone] = <<TRUE, TRUE, FALSE>>
    /\ \E k \in BackwardImpls :
          /\ output[k].is_ref
          /\ [n \in 1..3 |-> output[k].inits[n].value.clone] = <<TRUE, TRUE, TRUE>>

AnyFallibleField == \E i \in 1..Len(fields) : is_fallible(fields[i].source.transform)

\* C27: the derive chooses its conversion mode by priority: an explicit error
\* type gives fallible procedures with that type, also when no field is
\* fallible; otherwise a `try_from` marker or any fallible field gives fallible
\* procedures with `::relate::ConversionError`; otherwise infallible ones.
C27_ConversionModePriority ==
    (phase = "emitted" /\ generator = "derive") =>
        /\ ForwardImpls # {}
        /\ \A k \in ForwardImpls :
              IF request.error_type # "None"
              THEN output[k].trait = "TryFrom" /\ output[k].error = request.error_type
              ELSE IF request.force_try_from \/ AnyFallibleField
              THEN /\ output[k].trait = "TryFrom"
                   /\ output[k].error = "::relate::ConversionError"
              ELSE output[k].trait = "From" /\ output[k].error = ""

\* an explicit error type E on a mapping set with a fallible field and no
\* `try_from` marker: the procedures return E
C27_Witness ==
    /\ phase = "emitted"
    /\ generator = "derive"
    /\ request.error_type = "E"
    /\ ~request.force_try_from
    /\ AnyFallibleField
    /\ Cardinality(ForwardImpls) = 2
    /\ \A k \in ForwardImpls : output[k].trait = "TryFrom" /\ output[k].error = "E"

(***************************************************************************)
(* Keywords in front of a dot                                              *)
(***************************************************************************)
\* a token sequence and the streams of the groups in it, at every depth
RECURSIVE Streams(_)
Streams(tokens) ==
    {tokens} \cup UNION {Streams(tokens[k].stream) :
                            k \in {n \in 1..Len(tokens) : tokens[n].kind = "Group"}}

\* the dot at k comes first in its stream or right after a keyword, a literal
\* or an operator
AfterNonBase(stream, k) ==
    \/ k = 1
    \/ stream[k - 1].kind = "Ident" /\ stream[k - 1].text \in Keywords
    \/ stream[k - 1].kind = "Literal"
    \/ stream[k - 1].kind = "Punct" /\ stream[k - 1].text \notin {")", "]", "}", "?"}

\* the dot at k comes right after a name, a group or `?`
AfterBase(stream, k) ==
    /\ k > 1
    /\ \/ stream[k - 1].kind = "Ident" /\ stream[k - 1].text \notin Keywords
       \/ stream[k - 1].kind = "Group"
       \/ stream[k - 1] = Pu("?")

\* the dots of a stream that are followed by an identifier
AccessDots(stream) ==
    {k \in 1..Len(stream) :
        stream[k] = Pu(".") /\ k < Len(stream) /\ stream[k + 1].kind = "Ident"}

\* C28: a keyword is not a base expression: a dot followed by an identifier
\* that comes right after a keyword, a literal, an operator or the start of a
\* group gets `src` prefixed, a dot after a name, a group or `?` is left as it
\* is; the tokens before the dot are rendered the same either way.
C28_KeywordIsNotABase ==
    phase = "emitted" =>
        \A i \in WithFields :
            LET f == fields[i].target_field
                tokens == fields[i].source.transform.tokens
                member(stream, k) ==
                    IF stream[k + 1] = Id("_") THEN Id(f) ELSE stream[k + 1]
                upto(stream, k) == transform_with_expr_tokens(SubSeq(stream, 1, k + 1), f)
                before(stream, k) == transform_with_expr_tokens(SubSeq(stream, 1, k - 1), f)
            IN /\ \A stream \in Streams(tokens) : \A k \in AccessDots(stream) :
                     /\ AfterNonBase(stream, k) \/ AfterBase(stream, k)
                     /\ AfterNonBase(stream, k) =>
                            upto(stream, k) = before(stream, k)
                                \o <<Id("src"), Pu("."), member(stream, k)>>
                     /\ AfterBase(stream, k) =>
                            upto(stream, k) = before(stream, k)
                                \o <<Pu("."), member(stream, k)>>
               /\ \A v \in Variants : \A k \in AccessDots(tokens) :
                     LET emitted == WithValue(v, i).tokens
                     IN /\ Len(emitted) >= Len(upto(tokens, k))
                        /\ SubSeq(emitted, 1, Len(upto(tokens, k))) = upto(tokens, k)

\* `if .m` is emitted as `if src.m`
C28_Witness ==
    /\ phase = "emitted"
    /\ Len(fields) = 1
    /\ fields[1].source.transform.kind = "WithExpr"
    /\ fields[1].source.transform.tokens = <<Id("if"), Pu("."), Id("m")>>
    /\ \A v \in Variants :
          WithValue(v, 1).tokens = <<Id("if"), Id("src"), Pu("."), Id("m")>>

(***************************************************************************)
(* Fields that read a hoisted default                                      *)
(***************************************************************************)
\* the fields whose initializer reads the temporary of a hoisted default
Consumers(v) ==
    {i \in 1..Len(fields) :
        /\ Kind(i) = "DefaultExpr"
        /\ procs[v].inits[i].value.form = "binding"}

\* C29: a field that reads a hoisted default temporary duplicates it by its
\* effective clone mode alone: under Cloned and under Auto every consumer
\* reads a duplicate, the last one included, under Move and Copy none does,
\* in the owned and the reference-taking procedure alike; a temporary has
\* more than one consumer.
C29_HoistedDefaultDuplicatesByMode ==
    (phase = "emitted" /\ generator = "derive") =>
        \A v \in Variants : \A i \in Consumers(v) :
            /\ procs[v].inits[i].value.clone <=> EffectiveMode(i) \in {"Cloned", "Auto"}
            /\ \E j \in Consumers(v) :
                  /\ j # i
                  /\ procs[v].inits[j].value.binding = procs[v].inits[i].value.binding

\* `g()` for three fields under Auto: the owned procedure duplicates the
\* temporary for all three, the last included
C29_Witness ==
    /\ phase = "emitted"
    /\ generator = "derive"
    /\ clone_mode = "Auto"
    /\ Len(fields) = 3
    /\ \A i \in 1..3 : fields[i].source.transform = DefaultExpr(ExprG)
    /\ Consumers("owned") = 1..3
    /\ \A i \in 1..3 : procs["owned"].inits[i].value.clone

(***************************************************************************)
(* Moves out of the owned source record                                    *)
(***************************************************************************)
\* the values of the owned procedure in evaluation order: the temporaries,
\* then the initializers
OwnedSteps ==
    [n \in 1..Len(procs["owned"].lets) |-> procs["owned"].lets[n].value]
    \o [n \in 1..Len(procs["owned"].inits) |-> procs["owned"].inits[n].value]

\* the source field a value accesses as `src.<field>`, "" when it names none
Accessed(value) ==
    IF value.form = "field_access" THEN value.field
    ELSE IF /\ value.form = "with_expr"
            /\ Len(value.tokens) = 3
            /\ value.tokens[1] = Id("src")
            /\ value.tokens[2] = Pu(".")
    THEN value.tokens[3].text
    ELSE ""

\* the value takes the field out of the record: it names it without duplicating
Moves(value) == Accessed(value) # "" /\ ~value.clone

\* distinct targets, Auto, Identity and single source field accesses only
MoveScope ==
    /\ clone_mode = "Auto"
    /\ \A i, j \in 1..Len(fields) :
          fields[i].target_field = fields[j].target_field => i = j
    /\ \A i \in 1..Len(fields) :
          /\ fields[i].source.clone_mode = "None"
          /\ \/ Kind(i) = "Identity"
             \/ /\ Kind(i) = "WithExpr"
                /\ ~fields[i].source.transform.fallible
                /\ \E f \in {"a", "b", "c", "d", "e", "f"} :
                      fields[i].source.transform.tokens
                          \in {<<Id("_")>>, <<Pu("."), Id("_")>>, <<Pu("."), Id(f)>>}

\* C30: for distinct targets, Identity mappings and call-free expressions that
\* are one top-level source field access, under Auto, the owned procedure of
\* either generator moves each source field at most once and never reads a
\* source field after the step that moved it, temporaries first, then the
\* initializers in mapping order.
C30_OwnedNeverReadsAfterMove ==
    (phase = "emitted" /\ MoveScope) =>
        \A p, q \in 1..Len(OwnedSteps) :
            (p < q /\ Moves(OwnedSteps[p]))
                => Accessed(OwnedSteps[q]) # Accessed(OwnedSteps[p])

\* `a: with = .b` and the Identity field b after it: the first step reads a
\* duplicate of `src.b`, the last step moves it, and a third field moves
\* `src.c` on its own
C30_Witness ==
    /\ phase = "emitted"
    /\ MoveScope
    /\ Len(fields) = 3
    /\ fields[1].source.transform = WithExpr(TokDotB, FALSE)
    /\ Kind(2) = "Identity"
    /\ \E p, q \in 1..Len(OwnedSteps) :
          /\ p < q
          /\ Accessed(OwnedSteps[p]) = "b" /\ ~Moves(OwnedSteps[p])
          /\ Accessed(OwnedSteps[q]) = "b" /\ Moves(OwnedSteps[q])
    /\ \E r \in 1..Len(OwnedSteps) :
          Accessed(OwnedSteps[r]) = "c" /\ Moves(OwnedSteps[r])
====
